---- MODULE Spec2Model ----
(***************************************************************************)
(* Model of atlasclient/exceptions.py: the error classes of pyatlasclient, *)
(* the status-code registry built at import time, and handle_response.     *)
(*                                                                         *)
(* Python values are tagged tuples so that None, strings and integers can  *)
(* live in the same field: None, StrV(s), IntV(n).  A record of the log    *)
(* is kept by its level name only.                                         *)
(***************************************************************************)
EXTENDS Integers, Sequences, FiniteSets, TLC

VARIABLES
    registry,     \* _status_to_exception_type: status code -> class name
    response,     \* argument of the most recent handle_response call
    ctor,         \* arguments of the most recent direct construction
    outcome,      \* how the most recent call ended: none / constructed / returned / raised
    exc,          \* the error object produced by the most recent call
    rendered,     \* the strings the str(exc) calls on exc returned, oldest first
    log,          \* level names of the records emitted on logger 'pyatlasclient'
    renderCalls   \* number of __str__ calls made so far

vars == <<registry, response, ctor, outcome, exc, rendered, log, renderCalls>>

(* ---------------------------- Python values ---------------------------- *)

None == <<"None">>
StrV(s) == <<"str", s>>
IntV(n) == <<"int", n>>

\* Python truthiness of None, a string or an integer.
Truthy(v) == v # None /\ v # StrV("") /\ v # IntV(0)

\* The Python expression `a or b`.
Or(a, b) == IF Truthy(a) THEN a ELSE b

\* str(v), as the %s conversion applies it.
PyStr(v) ==
    IF v = None THEN "None"
    ELSE IF v[1] = "int" THEN ToString(v[2])
    ELSE v[2]

\* fmt % args, the format string given as its literal pieces around each %s.
RECURSIVE PercentFormat(_, _)
PercentFormat(pieces, args) ==
    IF args = <<>> THEN pieces[1]
    ELSE pieces[1] \o PyStr(args[1]) \o PercentFormat(Tail(pieces), Tail(args))

Range(s) == {s[i] : i \in DOMAIN s}

\* type(self).__name__: the name of the class an object was made by.
TypeOf(self) == self.cls

(* ------------------------------- classes ------------------------------- *)

\* The class statements of the module, in declaration order, each with the
\* attributes its own body assigns.
Classes == <<
    [name |-> "ClientError", base |-> "Exception",
     attrs |-> [message |-> StrV("Unknown Error")]],
    [name |-> "Timeout", base |-> "Exception",
     attrs |-> [message |-> StrV("Operation timeout exceeded")]],
    [name |-> "Failed", base |-> "Exception",
     attrs |-> [message |-> StrV("Operation failed to complete")]],
    [name |-> "HttpError", base |-> "Exception",
     attrs |-> [message |-> StrV("Unknown Error"), code |-> IntV(500)]],
    [name |-> "BadRequest", base |-> "HttpError",
     attrs |-> [message |-> StrV("Bad request"), code |-> IntV(400)]],
    [name |-> "Unauthorized", base |-> "HttpError",
     attrs |-> [message |-> StrV("Unauthorized"), code |-> IntV(401)]],
    [name |-> "Forbidden", base |-> "HttpError",
     attrs |-> [message |-> StrV("Forbidden"), code |-> IntV(403)]],
    [name |-> "NotFound", base |-> "HttpError",
     attrs |-> [message |-> StrV("Not found"), code |-> IntV(404)]],
    [name |-> "MethodNotAllowed", base |-> "HttpError",
     attrs |-> [message |-> StrV("Method Not Allowed"), code |-> IntV(405)]],
    [name |-> "Conflict", base |-> "HttpError",
     attrs |-> [message |-> StrV("Conflict"), code |-> IntV(409)]],
    [name |-> "RateLimitExceeded", base |-> "HttpError",
     attrs |-> [message |-> StrV("Rate limit"), code |-> IntV(429)]],
    [name |-> "ServerError", base |-> "HttpError",
     attrs |-> [message |-> StrV("Internal Server Error"), code |-> IntV(500)]],
    [name |-> "MethodNotImplemented", base |-> "HttpError",
     attrs |-> [message |-> StrV("Not Implemented"), code |-> IntV(501)]],
    [name |-> "ServerUnavailable", base |-> "HttpError",
     attrs |-> [message |-> StrV("Service Unavailable"), code |-> IntV(503)]]
>>

ClassNames == {c.name : c \in Range(Classes)}

ClassTable == [n \in ClassNames |-> CHOOSE c \in Range(Classes) : c.name = n]

ClassOf(name) == ClassTable[name]

\* cls.attr: the attribute of the class itself, else of its base class.
RECURSIVE ClassAttr(_, _)
ClassAttr(cls, attr) ==
    IF attr \in DOMAIN ClassOf(cls).attrs
    THEN ClassOf(cls).attrs[attr]
    ELSE ClassAttr(ClassOf(cls).base, attr)

\* HttpError.__subclasses__() with the base listed as well.
HttpError__subclasses__WithBase ==
    LET direct == SelectSeq(Classes, LAMBDA c : c.base = "HttpError")
    IN  [i \in 1..(Len(direct) + 1) |->
            IF i <= Len(direct) THEN direct[i].name ELSE "HttpError"]

\* HttpError.__subclasses__(): the direct subclasses, in declaration order.
HttpError__subclasses__ ==
    LET direct == SelectSeq(Classes, LAMBDA c : c.base = "HttpError")
    IN  [i \in 1..Len(direct) |-> direct[i].name]

\* dict(pairs): a later pair replaces an earlier one with the same key.
RECURSIVE Dict(_)
Dict(pairs) ==
    IF pairs = <<>> THEN <<>>
    ELSE LET n == Len(pairs)
             d == Dict(SubSeq(pairs, 1, n - 1))
             k == pairs[n][1]
         IN  [x \in DOMAIN d \cup {k} |-> IF x = k THEN pairs[n][2] ELSE d[x]]

\* _status_to_exception_type as the module builds it when imported.
StatusToExceptionType ==
    Dict([i \in DOMAIN HttpError__subclasses__ |->
            <<ClassAttr(HttpError__subclasses__[i], "code"),
              HttpError__subclasses__[i]>>])

(* ----------------------------- constructors ---------------------------- *)

\* ClientError.__init__(self, message=None)
ClientError__init__(cls, message) ==
    [cls |-> cls, message |-> Or(message, ClassAttr(cls, "message"))]

\* Timeout.__init__(self, timeout, message=None)
Timeout__init__(cls, timeout, message) ==
    [cls |-> cls, message |-> Or(message, ClassAttr(cls, "message")),
     timeout |-> timeout]

\* Failed.__init__(self, model, message=None)
Failed__init__(cls, model, message) ==
    [cls |-> cls, message |-> Or(message, ClassAttr(cls, "message")),
     model |-> model]

\* HttpError.__init__ taking its defaults from the base class HttpError
\* instead of the class being constructed.
HttpError__init__BaseDefaults(cls, code, message, details, url, method, retry_after) ==
    [cls |-> cls,
     message |-> Or(message, ClassAttr("HttpError", "message")),
     code |-> Or(code, ClassAttr("HttpError", "code")),
     details |-> details, url |-> url, method |-> method,
     retry_after |-> retry_after]

\* HttpError.__init__(self, code=None, message=None, details=None, url=None,
\*                    method=None, retry_after=None), inherited by every variant.
HttpError__init__(cls, code, message, details, url, method, retry_after) ==
    [cls |-> cls,
     message |-> Or(message, ClassAttr(cls, "message")),
     code |-> Or(code, ClassAttr(cls, "code")),
     details |-> details, url |-> url, method |-> method,
     retry_after |-> retry_after]

\* cls(**kwargs) for an HttpError class: a keyword that is not passed takes
\* the default None of the signature.
HttpErrorCall(cls, kwargs) ==
    LET arg(k) == IF k \in DOMAIN kwargs THEN kwargs[k] ELSE None
    IN  HttpError__init__(cls, arg("code"), arg("message"), arg("details"),
                          arg("url"), arg("method"), arg("retry_after"))

IsHttpErrorClass(cls) == cls = "HttpError" \/ ClassOf(cls).base = "HttpError"

(* ------------------------------- __str__ ------------------------------- *)

\* LOG.error(msg) with the call left out.
LOG_error_Dropped(records, msg) == records

\* LOG.error(msg): one more record at level ERROR.
LOG_error(records, msg) == Append(records, "ERROR")

\* ClientError.__str__: the string it builds, logs and returns.
ClientError__str__(self) ==
    PercentFormat(<<"Unexpected client-side error: ", "">>, <<self.message>>)

\* Timeout.__str__
Timeout__str__(self) ==
    PercentFormat(<<"Timed out after ", " seconds: ", "">>,
                  <<self.timeout, self.message>>)

\* Failed.__str__
Failed__str__(self) ==
    PercentFormat(<<"Failure detected for ", "/", ": ", "">>,
                  <<self.model.__class__.__name__, self.model.identifier,
                    self.message>>)

\* HttpError.__str__ with code and message in the wrong order.
HttpError__str__Swapped(self) ==
    PercentFormat(<<"HTTP request failed for ", " ", ": ", " ", ": ", "">>,
                  <<self.method, self.url, self.code, self.message, self.details>>)

\* HttpError.__str__, inherited by every variant.
HttpError__str__(self) ==
    LET params == <<self.method, self.url, self.message, self.code, self.details>>
    IN  PercentFormat(<<"HTTP request failed for ", " ", ": ", " ", ": ", "">>,
                      params)

\* str(self): the __str__ of the object's class.
Str__(self) ==
    IF TypeOf(self) = "ClientError" THEN ClientError__str__(self)
    ELSE IF TypeOf(self) = "Timeout" THEN Timeout__str__(self)
    ELSE IF TypeOf(self) = "Failed" THEN Failed__str__(self)
    ELSE HttpError__str__(self)

(* --------------------------- response headers -------------------------- *)

\* Header names are sequences of characters, so that their case can be folded.
UpperChars == <<"A", "B", "C", "D", "E", "F", "G", "H", "I", "J", "K", "L", "M",
                "N", "O", "P", "Q", "R", "S", "T", "U", "V", "W", "X", "Y", "Z">>
LowerChars == <<"a", "b", "c", "d", "e", "f", "g", "h", "i", "j", "k", "l", "m",
                "n", "o", "p", "q", "r", "s", "t", "u", "v", "w", "x", "y", "z">>

\* The lower-case letter of each upper-case letter.
LowerOf ==
    [c \in Range(UpperChars) |->
        LowerChars[CHOOSE i \in DOMAIN UpperChars : UpperChars[i] = c]]

LowerChar(c) == IF c \in DOMAIN LowerOf THEN LowerOf[c] ELSE c

\* key.lower()
Lower(key) == [i \in DOMAIN key |-> LowerChar(key[i])]

\* The headers mapping of a response, <<"dict", store>>: built from the
\* received header lines, its store keeps one entry <<lower-cased name, line>>
\* per name, a later line replacing an earlier one of the same name.
RECURSIVE CaseInsensitiveStore(_)
CaseInsensitiveStore(lines) ==
    IF lines = <<>> THEN <<>>
    ELSE LET n == Len(lines)
             d == CaseInsensitiveStore(SubSeq(lines, 1, n - 1))
             k == Lower(lines[n][1])
         IN  IF \E i \in DOMAIN d : d[i][1] = k
             THEN [i \in DOMAIN d |-> IF d[i][1] = k THEN <<k, lines[n]>> ELSE d[i]]
             ELSE Append(d, <<k, lines[n]>>)

CaseInsensitiveDict(lines) == <<"dict", CaseInsensitiveStore(lines)>>

\* key in headers
HeadersContain(headers, key) ==
    LET k == Lower(key)
    IN  \E i \in DOMAIN headers[2] : headers[2][i][1] = k

\* headers.get(key)
HeadersGet(headers, key) ==
    IF HeadersContain(headers, key)
    THEN LET k == Lower(key)
             i == CHOOSE j \in DOMAIN headers[2] : headers[2][j][1] = k
         IN  headers[2][i][2][2]
    ELSE None

\* bool(headers): None and the empty mapping are false.
HeadersTruthy(headers) == headers # None /\ headers[2] # <<>>

RetryAfterKey == <<"r", "e", "t", "r", "y", "-", "a", "f", "t", "e", "r">>

(* ---------------------------- handle_response -------------------------- *)

\* The test of a valid response, only 2xx taken as valid.
IsValidResponseOnly2xx(resp) == resp.status_code[2] < 300

\* response.status_code < 400
IsValidResponse(resp) == resp.status_code[2] < 400

\* The lookup without the registry: always the base class.
ResolveClassBaseOnly(reg, status_code) == "HttpError"

\* The lookup falling back to the 500 variant instead of the base class.
ResolveClassServerErrorDefault(reg, status_code) ==
    IF status_code \in DOMAIN reg THEN reg[status_code] ELSE "ServerError"

\* _status_to_exception_type.get(response.status_code, HttpError)
ResolveClass(reg, status_code) ==
    IF status_code \in DOMAIN reg THEN reg[status_code] ELSE "HttpError"

\* The keyword arguments with method and url exchanged.
HandleKwargsSwapped(resp) ==
    [code |-> resp.status_code, details |-> resp.text,
     url |-> resp.request.method, method |-> resp.request.url]

\* The keyword arguments without the retry-after header.
HandleKwargsNoRetryAfter(resp) ==
    [code |-> resp.status_code, details |-> resp.text,
     url |-> resp.request.url, method |-> resp.request.method]

\* The keyword arguments with the response text passed as the message too.
HandleKwargsTextAsMessage(resp) ==
    [message |-> resp.text, code |-> resp.status_code, details |-> resp.text,
     url |-> resp.request.url, method |-> resp.request.method]

\* kwargs of handle_response: code, method, url and details always,
\* retry_after only when the headers hold a retry-after entry.
HandleKwargs(resp) ==
    LET kwargs == [code |-> resp.status_code, details |-> resp.text,
                   url |-> resp.request.url, method |-> resp.request.method]
    IN  IF HeadersTruthy(resp.headers) /\ HeadersContain(resp.headers, RetryAfterKey)
        THEN [k \in DOMAIN kwargs \cup {"retry_after"} |->
                IF k = "retry_after" THEN HeadersGet(resp.headers, RetryAfterKey)
                ELSE kwargs[k]]
        ELSE kwargs

NoError == [cls |-> "NoError"]

\* handle_response(response): returns for a valid response, else raises the
\* error of the class resolved for the status code.
handle_response(reg, resp) ==
    IF IsValidResponse(resp)
    THEN [outcome |-> "returned", exc |-> NoError]
    ELSE [outcome |-> "raised",
          exc |-> HttpErrorCall(ResolveClass(reg, resp.status_code),
                                HandleKwargs(resp))]

(* -------------------------------- inputs ------------------------------- *)

MaxLog == 2

StatusCodes ==
    {IntV(n) : n \in {100, 200, 204, 301, 399, 400, 401, 403, 404, 405, 409, 418,
                      429, 500, 501, 502, 503, 599}}

Texts == {StrV(""), StrV("{\"error\": \"boom\"}")}

Requests ==
    {[url |-> StrV("http://atlas/api/atlas/v2/types"), method |-> StrV("GET")],
     [url |-> StrV("http://atlas/api/atlas/v2/entity"), method |-> StrV("POST")]}

ContentType == <<"C", "o", "n", "t", "e", "n", "t", "-", "T", "y", "p", "e">>
RetryAfterTitle == <<"R", "e", "t", "r", "y", "-", "A", "f", "t", "e", "r">>
RetryAfterUpper == <<"R", "E", "T", "R", "Y", "-", "A", "F", "T", "E", "R">>

\* The header lines a response may arrive with.
HeaderLines ==
    {<<>>,
     <<<<ContentType, StrV("application/json")>>>>,
     <<<<RetryAfterKey, StrV("120")>>>>,
     <<<<RetryAfterTitle, StrV("30")>>, <<ContentType, StrV("application/json")>>>>,
     <<<<RetryAfterUpper, StrV("")>>>>,
     <<<<RetryAfterTitle, StrV("30")>>, <<RetryAfterKey, StrV("60")>>>>}

HeaderValues == {None} \cup {CaseInsensitiveDict(l) : l \in HeaderLines}

Responses ==
    [headers : HeaderValues, status_code : StatusCodes, text : Texts,
     request : Requests]

Messages == {None, StrV(""), StrV("custom message")}
Codes == {None, IntV(0), IntV(418)}
Timeouts == {IntV(30), IntV(0)}
Models == {[__class__ |-> [__name__ |-> StrV("Cluster")],
            identifier |-> StrV("abc123")]}
Contexts ==
    {[details |-> None, url |-> None, method |-> None, retry_after |-> None],
     [details |-> StrV("body"), url |-> StrV("http://atlas/api"),
      method |-> StrV("GET"), retry_after |-> StrV("5")]}

HttpErrorClasses == {c \in ClassNames : IsHttpErrorClass(c)}

NoCall == [cls |-> "NoCall"]
NoResponse == [status_code |-> None]

(* ------------------------------ operations ----------------------------- *)

Init ==
    /\ registry = StatusToExceptionType
    /\ response = NoResponse
    /\ ctor = NoCall
    /\ outcome = "none"
    /\ exc = NoError
    /\ rendered = <<>>
    /\ log = <<>>
    /\ renderCalls = 0

\* ClientError(message)
ConstructClientError ==
    \E message \in Messages :
        /\ ctor' = [cls |-> "ClientError", message |-> message]
        /\ exc' = ClientError__init__("ClientError", message)
        /\ outcome' = "constructed"
        /\ response' = NoResponse
        /\ rendered' = <<>>
        /\ UNCHANGED <<registry, log, renderCalls>>

\* Timeout(timeout, message)
ConstructTimeout ==
    \E timeout \in Timeouts, message \in Messages :
        /\ ctor' = [cls |-> "Timeout", message |-> message, timeout |-> timeout]
        /\ exc' = Timeout__init__("Timeout", timeout, message)
        /\ outcome' = "constructed"
        /\ response' = NoResponse
        /\ rendered' = <<>>
        /\ UNCHANGED <<registry, log, renderCalls>>

\* Failed(model, message)
ConstructFailed ==
    \E model \in Models, message \in Messages :
        /\ ctor' = [cls |-> "Failed", message |-> message, model |-> model]
        /\ exc' = Failed__init__("Failed", model, message)
        /\ outcome' = "constructed"
        /\ response' = NoResponse
        /\ rendered' = <<>>
        /\ UNCHANGED <<registry, log, renderCalls>>

\* HttpError(...) or one of its variants, called directly
ConstructHttpError ==
    \E cls \in HttpErrorClasses, code \in Codes, message \in Messages,
       c \in Contexts :
        /\ ctor' = [cls |-> cls, message |-> message, code |-> code,
                    details |-> c.details, url |-> c.url, method |-> c.method,
                    retry_after |-> c.retry_after]
        /\ exc' = HttpError__init__(cls, code, message, c.details, c.url,
                                    c.method, c.retry_after)
        /\ outcome' = "constructed"
        /\ response' = NoResponse
        /\ rendered' = <<>>
        /\ UNCHANGED <<registry, log, renderCalls>>

\* handle_response(resp)
HandleResponse ==
    \E resp \in Responses :
        LET r == handle_response(registry, resp)
        IN  /\ response' = resp
            /\ outcome' = r.outcome
            /\ exc' = r.exc
            /\ ctor' = NoCall
            /\ rendered' = <<>>
            /\ UNCHANGED <<registry, log, renderCalls>>

\* str(exc): builds the message, logs it and returns it
Render ==
    /\ exc # NoError
    /\ renderCalls < MaxLog
    /\ LET exception_message == Str__(exc)
       IN  /\ log' = LOG_error(log, exception_message)
           /\ rendered' = Append(rendered, exception_message)
    /\ renderCalls' = renderCalls + 1
    /\ UNCHANGED <<registry, response, ctor, outcome, exc>>

Next ==
    \/ ConstructClientError
    \/ ConstructTimeout
    \/ ConstructFailed
    \/ ConstructHttpError
    \/ HandleResponse
    \/ Render

Spec == Init /\ [][Next]_vars

(* ------------------------------ properties ----------------------------- *)

Raised == outcome = "raised"
Handled == response # NoResponse
ErrorStatus == Handled /\ response.status_code[2] >= 400

\* The documented variant of each status code, with its default message.
VariantTable ==
    {<<400, "BadRequest", "Bad request">>,
     <<401, "Unauthorized", "Unauthorized">>,
     <<403, "Forbidden", "Forbidden">>,
     <<404, "NotFound", "Not found">>,
     <<405, "MethodNotAllowed", "Method Not Allowed">>,
     <<409, "Conflict", "Conflict">>,
     <<429, "RateLimitExceeded", "Rate limit">>,
     <<500, "ServerError", "Internal Server Error">>,
     <<501, "MethodNotImplemented", "Not Implemented">>,
     <<503, "ServerUnavailable", "Service Unavailable">>}

VariantCodes == {v[1] : v \in VariantTable}

\* C1: a response whose status code is in the variant table makes
\* handle_response raise exactly the variant listed for it (500 raises
\* ServerError, not the base), with code equal to the status code.
C1_MappedStatusRaisesItsVariant ==
    \A v \in VariantTable :
        (Handled /\ response.status_code = IntV(v[1]))
            => (Raised /\ exc.cls = v[2] /\ exc.code = IntV(v[1]))

C1_Witness ==
    /\ Handled /\ response.status_code = IntV(500)
    /\ Raised /\ exc.cls = "ServerError" /\ exc.code = IntV(500)

\* C2: a response with a status code below 400 makes handle_response return
\* normally, whatever its headers, text and request are.
C2_ValidResponseReturns ==
    (Handled /\ response.status_code[2] < 400)
        => (outcome = "returned" /\ exc = NoError)

C2_Witness ==
    /\ Handled /\ response.status_code = IntV(301)
    /\ response.headers # None /\ response.headers[2] # <<>>
    /\ outcome = "returned"

\* C3: every status code >= 400 raises an HttpError-kind error and never
\* returns; a code no variant is registered for raises the base HttpError
\* itself with code equal to the status code.
C3_UnmappedStatusRaisesBase ==
    ErrorStatus =>
        /\ Raised
        /\ exc.cls \in {"HttpError"} \cup {v[2] : v \in VariantTable}
        /\ response.status_code[2] \notin VariantCodes
            => (exc.cls = "HttpError" /\ exc.code = response.status_code)

C3_Witness ==
    /\ Handled /\ response.status_code = IntV(418)
    /\ Raised /\ exc.cls = "HttpError" /\ exc.code = IntV(418)

\* C4: the raised error carries details = response.text, method =
\* response.request.method and url = response.request.url.
C4_ContextPropagated ==
    ErrorStatus =>
        /\ Raised
        /\ exc.details = response.text
        /\ exc.method = response.request.method
        /\ exc.url = response.request.url

C4_Witness ==
    /\ Raised /\ response.text = StrV("")
    /\ exc.details = StrV("") /\ exc.method = StrV("POST")
    /\ exc.url = StrV("http://atlas/api/atlas/v2/entity")

\* The spellings of the retry-after header name that differ only in case.
RetryAfterCasings == {RetryAfterKey, RetryAfterTitle, RetryAfterUpper}

\* C5: the raised error's retry_after is the value of the response's
\* retry-after header, whatever the case of the header name, and None when
\* the headers are absent, empty or without that header.
C5_RetryAfterFromHeader ==
    ErrorStatus =>
        /\ Raised
        /\ IF response.headers # None
              /\ \E i \in DOMAIN response.headers[2] :
                    response.headers[2][i][2][1] \in RetryAfterCasings
           THEN \E i \in DOMAIN response.headers[2] :
                    /\ response.headers[2][i][2][1] \in RetryAfterCasings
                    /\ exc.retry_after = response.headers[2][i][2][2]
           ELSE exc.retry_after = None

C5_Witness ==
    /\ Raised /\ response.headers # None
    /\ \E i \in DOMAIN response.headers[2] :
          response.headers[2][i][2] = <<RetryAfterUpper, StrV("")>>
    /\ exc.retry_after = StrV("")

Built == outcome = "constructed"

\* C6 as stated: an omitted message or code takes the default of the class
\* being constructed, and a supplied one is kept as given.
C6_SuppliedKeptAsGiven ==
    Built =>
        /\ exc.message = IF ctor.message = None
                         THEN ClassOf(ctor.cls).attrs.message ELSE ctor.message
        /\ IsHttpErrorClass(ctor.cls) =>
              exc.code = IF ctor.code = None
                         THEN ClassOf(ctor.cls).attrs.code ELSE ctor.code

\* C6 amended: an omitted, empty ('') message or an omitted, zero code takes
\* the default declared by the class being constructed itself; any other
\* supplied message or code is kept as given.  NotFound() has code 404 and
\* message "Not found".
C6_DefaultsOfMostSpecificClass ==
    Built =>
        /\ exc.message = IF ctor.message \in {None, StrV("")}
                         THEN ClassOf(ctor.cls).attrs.message ELSE ctor.message
        /\ IsHttpErrorClass(ctor.cls) =>
              exc.code = IF ctor.code \in {None, IntV(0)}
                         THEN ClassOf(ctor.cls).attrs.code ELSE ctor.code
        /\ (ctor.cls = "NotFound" /\ ctor.message = None /\ ctor.code = None)
              => (exc.code = IntV(404) /\ exc.message = StrV("Not found"))

C6_Witness ==
    /\ Built /\ ctor.cls = "NotFound"
    /\ ctor.message = None /\ ctor.code = None
    /\ exc.code = IntV(404) /\ exc.message = StrV("Not found")

\* The display string of e, written out from the template of its kind.
Template(e) ==
    IF e.cls = "ClientError"
    THEN "Unexpected client-side error: " \o PyStr(e.message)
    ELSE IF e.cls = "Timeout"
    THEN "Timed out after " \o PyStr(e.timeout) \o " seconds: " \o PyStr(e.message)
    ELSE IF e.cls = "Failed"
    THEN "Failure detected for " \o PyStr(e.model.__class__.__name__) \o "/"
            \o PyStr(e.model.identifier) \o ": " \o PyStr(e.message)
    ELSE "HTTP request failed for " \o PyStr(e.method) \o " " \o PyStr(e.url)
            \o ": " \o PyStr(e.message) \o " " \o PyStr(e.code) \o ": "
            \o PyStr(e.details)

\* C7: str(error) is the template of its kind filled with the error's
\* fields, none dropped; Timeout(timeout=30) renders as
\* "Timed out after 30 seconds: Operation timeout exceeded".
C7_RenderFollowsTemplate ==
    \A i \in DOMAIN rendered :
        /\ rendered[i] = Template(exc)
        /\ (Built /\ ctor = [cls |-> "Timeout", message |-> None,
                                    timeout |-> IntV(30)])
              => rendered[i] = "Timed out after 30 seconds: Operation timeout exceeded"
        /\ (Built /\ ctor.cls = "Failed" /\ ctor.message = None)
              => rendered[i] =
                    "Failure detected for Cluster/abc123: Operation failed to complete"
        /\ (Built /\ ctor.cls = "NotFound" /\ ctor.message = None
                /\ ctor.code = None /\ ctor.details = None)
              => rendered[i] = "HTTP request failed for None None: Not found 404: None"
        /\ (Raised /\ response.status_code = IntV(409) /\ response.text = StrV("")
                /\ response.request.method = StrV("GET"))
              => rendered[i] =
                    "HTTP request failed for GET http://atlas/api/atlas/v2/types: Conflict 409: "

C7_Witness ==
    /\ Raised /\ response.status_code = IntV(409) /\ response.text = StrV("")
    /\ response.request.method = StrV("GET")
    /\ rendered =
          <<"HTTP request failed for GET http://atlas/api/atlas/v2/types: Conflict 409: ">>

\* C8: one ERROR record is logged per render call and by nothing else, so
\* the log always holds as many records as render calls were made; a render
\* leaves the error unchanged and renders of the same error return the same
\* string.
C8_LogOncePerRender ==
    /\ [](/\ Len(log) = renderCalls
          /\ \A i \in DOMAIN log : log[i] = "ERROR"
          /\ \A i, j \in DOMAIN rendered : rendered[i] = rendered[j])
    /\ [][/\ renderCalls' = renderCalls => log' = log
          /\ renderCalls' # renderCalls
                => (exc' = exc /\ Len(log') = Len(log) + 1
                    /\ Len(rendered') = Len(rendered) + 1)]_vars

C8_Witness ==
    /\ Len(rendered) = 2 /\ rendered[1] = rendered[2]
    /\ renderCalls = 2 /\ Len(log) = 2

DirectSubtypes == {c \in Range(Classes) : c.base = "HttpError"}

\* C9: the registry is a collision-free mapping: no two direct subtypes of
\* HttpError declare the same code, its keys are exactly the codes they
\* declare, each key maps to the subtype declaring it, the base HttpError is
\* not an entry; and no operation changes it.
C9_RegistryCollisionFree ==
    /\ \A c, d \in DirectSubtypes : c.attrs.code = d.attrs.code => c = d
    /\ DOMAIN registry = {c.attrs.code : c \in DirectSubtypes}
    /\ DOMAIN registry = {IntV(n) : n \in VariantCodes}
    /\ \A k \in DOMAIN registry :
          /\ registry[k] # "HttpError"
          /\ \E c \in DirectSubtypes : c.name = registry[k] /\ c.attrs.code = k
    /\ registry = StatusToExceptionType

C9_Witness ==
    /\ renderCalls = 1 /\ Raised /\ exc.cls = "HttpError"
    /\ registry[IntV(500)] = "ServerError"

\* C10: the message of an error raised by handle_response is the default
\* message of the class resolved for the status code ("Unknown Error" for an
\* unmapped code), whatever the response text, headers and request are.
C10_RaisedMessageIsClassDefault ==
    ErrorStatus =>
        /\ Raised
        /\ \A v \in VariantTable :
              response.status_code = IntV(v[1]) => exc.message = StrV(v[3])
        /\ response.status_code[2] \notin VariantCodes
              => exc.message = StrV("Unknown Error")

C10_Witness ==
    /\ Raised /\ response.status_code = IntV(404)
    /\ response.text # StrV("") /\ exc.message = StrV("Not found")

====
